---- MODULE Spec2Model ----
(***************************************************************************)
(* The analyst-target consensus aggregation of                             *)
(* supabase-analyst-targets-schema.sql: the tables analyst_targets and     *)
(* coin_analyst_summary, the rows seeded at installation, and the trigger  *)
(* function update_coin_analyst_summary that runs AFTER INSERT OR UPDATE   *)
(* of every analyst_targets row, inside the transaction of that write.     *)
(*                                                                         *)
(* Values.  A SQL NULL of a numeric column is the empty tuple <<>>.  A     *)
(* numeric that an aggregate computes is kept exact, as a reduced fraction *)
(* <<n, d>> with d > 0; the rounding of a DECIMAL column to its scale is   *)
(* not part of the model, so no formula below may rest on it.  The         *)
(* quotient STDDEV / AVG * 100 is kept exact as <<s, n, d>>, which stands  *)
(* for s * 100 * sqrt(n / d) with s in {-1, 0, 1} and n / d reduced.       *)
(* A NULL of the text column consensus_direction is the string NullText.   *)
(*                                                                         *)
(* The API handlers (GET /api/coin/[symbol], POST /api/data, POST          *)
(* /api/seed, POST /api/supabase-setup) work on the tables that            *)
(* createDatabaseSchema declares: coin_data, analyst_targets (there keyed  *)
(* by coin_symbol and analysis_date), tweet_sentiments and                 *)
(* correlation_analysis.  They are specified apart (SpecApi); under        *)
(* SpecApi the variable analyst_targets holds rows of that declaration.    *)
(***************************************************************************)
EXTENDS Integers, Sequences, FiniteSets, TLC

VARIABLES
    analyst_targets,       \* committed rows of analyst_targets
    coin_analyst_summary,  \* committed rows of coin_analyst_summary
    symbol_unique,         \* is there a unique index on coin_analyst_summary(symbol)
    clock,                 \* the value NOW() gives the next transaction
    id_seq,                \* ids handed out to analyst_targets rows so far
    last,                  \* the last statement that finished, and how
    tx,                    \* the open transaction of each session
    selected,              \* what the SELECT of the trigger function last yielded
    coin_data,             \* rows of coin_data (the tables of the API handlers)
    tweet_sentiments,      \* rows of tweet_sentiments
    correlation_analysis,  \* rows of correlation_analysis
    http,                  \* the last request handled, its database calls, its response
    analyst_profiles,      \* ids of the committed rows of analyst_profiles
    served,                \* per static handler, its first response and the database then
    access,                \* the last statement checked against the row-level-security policies
    components,            \* the state of each data-fetching client component
    connection             \* the state of SupabaseConnectionTest and its requests in flight

vars ==
    <<analyst_targets, coin_analyst_summary, symbol_unique, clock, id_seq, last, tx, selected,
      coin_data, tweet_sentiments, correlation_analysis, http, analyst_profiles,
      served, access, components, connection>>

\* the state of the API handlers that the statements on the trigger's tables leave alone
apiVars == <<coin_data, tweet_sentiments, correlation_analysis, http>>

\* ------------------------------------------------------------------ bounds

MaxRows == 2        \* analyst_targets rows ever inserted
MaxClock == 2       \* statements run
MaxAggRows == 3     \* rows of the table the SELECT list is evaluated on
MaxTxClock == 2     \* transactions begun under concurrency

\* ------------------------------------------------------------------ values

Null == <<>>
NullText == "<NULL>"

Abs(x) == IF x < 0 THEN -x ELSE x

Sign(x) == IF x < 0 THEN -1 ELSE IF x = 0 THEN 0 ELSE 1

RECURSIVE Gcd(_, _)
Gcd(a, b) == IF b = 0 THEN a ELSE Gcd(b, a % b)

\* the exact quotient n / d (d # 0) as a reduced fraction with a positive denominator
Rat(n, d) ==
    LET g == Gcd(Abs(n), Abs(d))
        s == IF d < 0 THEN -1 ELSE 1
    IN  <<(s * n) \div g, (s * d) \div g>>

\* ------------------------------------------------------------------ inputs

Symbols == {"BTC", "ADA"}
AnalystIds == {1, 2}
MainAnalystIds == {1}
CurrentPrices == {1, 2}
TargetPrices == {-1, 0, 1}
ChangePercents == {<<-6>>, <<-5>>, <<5>>, <<6>>, Null}
MainChangePercents == {<<6>>}
Timeframes == {"short_term", "medium_term", "long_term"}
MainTimeframes == {"short_term", "long_term"}
Confidences == {<<5>>}

\* the symbols of the rows inserted when the schema is installed
SeededSymbols == <<"BTC", "ETH", "SOL", "XRP", "BNB", "DOGE", "TRX", "SUI", "AVAX", "TAO">>

\* ------------------------------------------------------------------ aggregates
\* An aggregate is given the set of <<id, value>> pairs of its input rows, so that
\* two rows with the same value both count.  SQL aggregates skip NULL inputs.

NonNull(P) == {p \in P : p[2] # Null}

RECURSIVE SumOf(_)
SumOf(P) == IF P = {} THEN 0 ELSE LET p == CHOOSE q \in P : TRUE IN p[2] + SumOf(P \ {p})

RECURSIVE SumSq(_)
SumSq(P) == IF P = {} THEN 0 ELSE LET p == CHOOSE q \in P : TRUE IN p[2] * p[2] + SumSq(P \ {p})

COUNT(P) == Cardinality(P)

\* (mutant) an empty input averages to zero instead of NULL
AVGZeroWhenEmpty(P) == IF P = {} THEN <<0, 1>> ELSE Rat(SumOf(P), Cardinality(P))

AVG(P) == IF P = {} THEN Null ELSE Rat(SumOf(P), Cardinality(P))

\* the values of P in ascending order
RECURSIVE Sorted(_)
Sorted(P) ==
    IF P = {} THEN <<>>
    ELSE LET p == CHOOSE q \in P : \A o \in P : q[2] <= o[2]
         IN  <<p[2]>> \o Sorted(P \ {p})

\* PERCENTILE_CONT(0.5) WITHIN GROUP (ORDER BY v): with N values the row number is
\* RN = 1 + 0.5 * (N - 1); the result interpolates between the rows FLOOR(RN) and
\* CEIL(RN) by the fraction RN - FLOOR(RN), which is 0 (N odd) or 1/2 (N even).
PERCENTILE_CONT_HALF(P) ==
    IF P = {} THEN Null
    ELSE LET v == Sorted(P)
             N == Len(v)
             frn == (N + 1) \div 2
             crn == (N + 2) \div 2
         IN  IF frn = crn THEN Rat(v[frn], 1)
             ELSE Rat(2 * v[frn] + (v[crn] - v[frn]), 2)

\* (mutant) the population deviation: divisor N, and 0 for a single input
STDDEV_POP_SQ(P) ==
    LET N == Cardinality(P)
    IN  IF N < 1 THEN Null
        ELSE Rat(N * SumSq(P) - SumOf(P) * SumOf(P), N * N)

\* STDDEV is stddev_samp: NULL for fewer than two inputs, else the square root of
\* (N * sum(x^2) - sum(x)^2) / (N * (N - 1)).  The value returned here is its square.
STDDEV_SQ(P) ==
    LET N == Cardinality(P)
    IN  IF N < 2 THEN Null
        ELSE Rat(N * SumSq(P) - SumOf(P) * SumOf(P), N * (N - 1))

\* a / b of SQL numerics raises division_by_zero exactly when neither input is NULL
\* and b = 0; with a NULL input the operator is not evaluated and the result is NULL
DivisionByZero(a, b) == a # Null /\ b # Null /\ b[1] = 0

\* STDDEV(x) / AVG(x) * 100, given STDDEV(x)^2 and AVG(x), when no error is raised
Dispersion(sq, avg) ==
    IF sq = Null \/ avg = Null THEN Null
    ELSE LET q == Rat(sq[1] * avg[2] * avg[2], sq[2] * avg[1] * avg[1])
         IN  <<Sign(avg[1]) * Sign(q[1]), q[1], q[2]>>

\* price_dispersion is DECIMAL(8,4): a value of 10^4 or more in magnitude overflows
NumericOverflow(disp) == disp # Null /\ disp[2] >= 10000 * disp[3]

\* ------------------------------------------------------------------ tables

SummaryFields ==
    {"symbol", "current_price", "total_analysts", "short_term_targets",
     "medium_term_targets", "long_term_targets", "avg_short_term_target",
     "avg_medium_term_target", "avg_long_term_target", "median_short_term_target",
     "median_medium_term_target", "median_long_term_target", "consensus_direction",
     "confidence_level", "price_dispersion", "last_updated"}

\* INSERT INTO coin_analyst_summary (symbol, current_price, total_analysts) VALUES
\* (sym, 0, 0): the other columns take their defaults (0 for the counts, NOW() for
\* last_updated) or are NULL
SeedRow(i) ==
    [id |-> i, symbol |-> SeededSymbols[i], current_price |-> 0, total_analysts |-> 0,
     short_term_targets |-> 0, medium_term_targets |-> 0, long_term_targets |-> 0,
     avg_short_term_target |-> Null, avg_medium_term_target |-> Null,
     avg_long_term_target |-> Null, median_short_term_target |-> Null,
     median_medium_term_target |-> Null, median_long_term_target |-> Null,
     consensus_direction |-> NullText, confidence_level |-> Null,
     price_dispersion |-> Null, last_updated |-> 0]

SeededSummary == {SeedRow(i) : i \in 1..Len(SeededSymbols)}

\* ------------------------------------------------------------------ the trigger function

\* (mutant) the WHERE clause without symbol = NEW.symbol: the active rows of every symbol
ActiveRowsOfAnySymbol(targets, sym) == {t \in targets : t.is_active = TRUE}

\* WHERE symbol = NEW.symbol AND is_active = true
ActiveRows(targets, sym) == {t \in targets : t.symbol = sym /\ t.is_active = TRUE}

\* CASE WHEN timeframe = tf THEN target_price END: NULL outside the bucket
BucketPrices(rows, tf) == {<<t.id, t.target_price>> : t \in {u \in rows : u.timeframe = tf}}

AllPrices(rows) == {<<t.id, t.target_price>> : t \in rows}

ChangePercentsOf(rows) ==
    {<<t.id, t.price_change_percent[1]>> : t \in {u \in rows : u.price_change_percent # Null}}

ConfidencesOf(rows) ==
    {<<t.id, t.confidence_level[1]>> : t \in {u \in rows : u.confidence_level # Null}}

\* (mutant) the thresholds taken inclusively: >= 5 and <= -5
ConsensusDirectionInclusive(avg) ==
    IF avg # Null /\ avg[1] >= 5 * avg[2] THEN "bullish"
    ELSE IF avg # Null /\ avg[1] <= (-5) * avg[2] THEN "bearish"
    ELSE "neutral"

\* CASE WHEN AVG(price_change_percent) > 5 ... : a comparison with NULL is not true
ConsensusDirection(avg) ==
    IF avg # Null /\ avg[1] > 5 * avg[2] THEN "bullish"
    ELSE IF avg # Null /\ avg[1] < (-5) * avg[2] THEN "bearish"
    ELSE "neutral"

\* does the SELECT list raise division_by_zero on these rows
SelectRaises(rows) == DivisionByZero(STDDEV_SQ(AllPrices(rows)), AVG(AllPrices(rows)))

\* the one row the SELECT of the trigger function yields (an aggregate query without
\* GROUP BY yields one row also when no row matches), when it raises no error
SelectSummary(new, targets, now) ==
    LET rows == ActiveRows(targets, new.symbol)
    IN  [symbol |-> new.symbol,
         current_price |-> new.current_price,
         total_analysts |-> Cardinality({t.analyst_id : t \in rows}),
         short_term_targets |-> COUNT(BucketPrices(rows, "short_term")),
         medium_term_targets |-> COUNT(BucketPrices(rows, "medium_term")),
         long_term_targets |-> COUNT(BucketPrices(rows, "long_term")),
         avg_short_term_target |-> AVG(BucketPrices(rows, "short_term")),
         avg_medium_term_target |-> AVG(BucketPrices(rows, "medium_term")),
         avg_long_term_target |-> AVG(BucketPrices(rows, "long_term")),
         median_short_term_target |-> PERCENTILE_CONT_HALF(BucketPrices(rows, "short_term")),
         median_medium_term_target |-> PERCENTILE_CONT_HALF(BucketPrices(rows, "medium_term")),
         median_long_term_target |-> PERCENTILE_CONT_HALF(BucketPrices(rows, "long_term")),
         consensus_direction |-> ConsensusDirection(AVG(ChangePercentsOf(rows))),
         confidence_level |-> AVG(ConfidencesOf(rows)),
         price_dispersion |-> Dispersion(STDDEV_SQ(AllPrices(rows)), AVG(AllPrices(rows))),
         last_updated |-> now]

\* (mutant) the counts of the proposed row are added to the stored ones: a merge
\* instead of a replacement
DoUpdateSetMerging(s, ex) ==
    [ex EXCEPT !.total_analysts = s.total_analysts + ex.total_analysts,
               !.short_term_targets = s.short_term_targets + ex.short_term_targets,
               !.medium_term_targets = s.medium_term_targets + ex.medium_term_targets,
               !.long_term_targets = s.long_term_targets + ex.long_term_targets]
        @@ [id |-> s.id]

\* (mutant) current_price is taken over only when the aggregation saw an active row
DoUpdateSetSkipsPrice(s, ex) ==
    [ex EXCEPT !.current_price = IF ex.total_analysts = 0 THEN s.current_price
                                 ELSE ex.current_price]
        @@ [id |-> s.id]

\* ON CONFLICT (symbol) DO UPDATE SET ...: every column of the SET list takes the
\* value of the proposed row; id and symbol stay
DoUpdateSet(s, ex) ==
    [s EXCEPT !.current_price = ex.current_price,
              !.total_analysts = ex.total_analysts,
              !.short_term_targets = ex.short_term_targets,
              !.medium_term_targets = ex.medium_term_targets,
              !.long_term_targets = ex.long_term_targets,
              !.avg_short_term_target = ex.avg_short_term_target,
              !.avg_medium_term_target = ex.avg_medium_term_target,
              !.avg_long_term_target = ex.avg_long_term_target,
              !.median_short_term_target = ex.median_short_term_target,
              !.median_medium_term_target = ex.median_medium_term_target,
              !.median_long_term_target = ex.median_long_term_target,
              !.consensus_direction = ex.consensus_direction,
              !.confidence_level = ex.confidence_level,
              !.price_dispersion = ex.price_dispersion,
              !.last_updated = ex.last_updated]

\* (mutant) DO UPDATE touches every row of the table, not only the row in conflict
UpsertEveryRow(summary, ex) ==
    IF \E s \in summary : s.symbol = ex.symbol
    THEN {[ex EXCEPT !.symbol = s.symbol] @@ [id |-> s.id] : s \in summary}
    ELSE summary \cup {[id |-> 1 + Cardinality(summary)] @@ ex}

NewSummaryId(summary) ==
    1 + (CHOOSE m \in {0} \cup {s.id : s \in summary} : \A s \in summary : s.id <= m)

\* INSERT ... ON CONFLICT (symbol) DO UPDATE with the unique index on symbol in place:
\* the row of that symbol is updated, or the proposed row is inserted
Upsert(summary, ex) ==
    IF \E s \in summary : s.symbol = ex.symbol
    THEN {IF s.symbol = ex.symbol THEN DoUpdateSet(s, ex) ELSE s : s \in summary}
    ELSE summary \cup {[id |-> NewSummaryId(summary)] @@ ex}

Ok == "00000"
InvalidColumnReference == "42P10"
DivisionByZeroState == "22012"
NumericValueOutOfRange == "22003"

\* The SQLSTATE with which the one statement of update_coin_analyst_summary ends for
\* the row new (NEW in the source), `targets` being the analyst_targets rows the statement sees.  ON
\* CONFLICT (symbol) needs a unique index on symbol to infer as its arbiter: with none
\* the statement is rejected when it is planned, before any row is read.
TriggerState(new, targets, unique) ==
    IF ~unique THEN InvalidColumnReference
    ELSE IF SelectRaises(ActiveRows(targets, new.symbol)) THEN DivisionByZeroState
    ELSE IF NumericOverflow(SelectSummary(new, targets, 0).price_dispersion)
         THEN NumericValueOutOfRange
    ELSE Ok

\* coin_analyst_summary after the trigger function ran for new without an error
update_coin_analyst_summary(new, targets, summary, now) ==
    Upsert(summary, SelectSummary(new, targets, now))

\* what evaluating the SELECT for new yields: the proposed row, or division_by_zero
SelectOutcome(new, targets, now) ==
    IF SelectRaises(ActiveRows(targets, new.symbol))
    THEN [sqlstate |-> DivisionByZeroState, id |-> new.id, symbol |-> new.symbol]
    ELSE [sqlstate |-> Ok, id |-> new.id, symbol |-> new.symbol,
          row |-> SelectSummary(new, targets, now)]

\* ------------------------------------------------------------------ statements

Sessions == {1, 2}

Idle == [phase |-> "idle"]

NotEvaluated == [sqlstate |-> NullText]

NoStatement == [op |-> "none", sqlstate |-> Ok, symbol |-> NullText, old_symbol |-> NullText,
                current_price |-> 0, active |-> FALSE, concurrent |-> FALSE,
                overlapped |-> FALSE]

\* no request has been handled
NoRequest == [handler |-> "none"]

\* the state that neither the writes of analyst_targets rows nor the API handlers
\* touch
otherVars == <<analyst_profiles, served, access, components, connection>>

\* no statement has been checked against a policy
NoAccess == [role |-> "none"]

\* the client components that fetch on mount
Components ==
    {"AnalystTargets", "PriceChart", "CorrelationAnalysis", "SentimentAnalysis", "Home"}

\* useState(...) of the data of a component: an empty list (its length is kept), and
\* for Home the statistics, all zero; SentimentAnalysis keeps its tweets and the
\* statistics counted from them
InitialData(c) ==
    CASE c = "Home" ->
             [totalCoins |-> 0, totalAnalysts |-> 0, totalTweets |-> 0, avgCorrelation |-> 0]
      [] c = "SentimentAnalysis" -> [tweets |-> 0, counted |-> 0]
      [] OTHER -> [rows |-> 0]

\* a component as first rendered: loading, its data empty, its fetch not settled
Mounted(c) == [loading |-> TRUE, data |-> InitialData(c), settled |-> FALSE, failed |-> FALSE]

\* the two operations of SupabaseConnectionTest that have a status, and the third
\* button, which has none
Operations == {"connection", "setup"}

\* SupabaseConnectionTest as first rendered: both statuses idle, as set and as
\* shown, no message, no button pressed, no request in flight
FirstRender ==
    [status |-> [op \in Operations |-> "idle"],
     shown |-> [op \in Operations |-> "idle"],
     errorMessage |-> "",
     presses |-> [op \in Operations |-> 0],
     inflight |-> [op \in Operations \cup {"seed"} |-> 0]]

\* the handlers that answer from literals in their source
StaticHandlers == {"GET /community", "GET /influencer", "GET /social-trends"}

\* every analyst whose id a row may name has a profile, and no static handler has
\* answered
OtherInit ==
    /\ analyst_profiles = AnalystIds
    /\ served = [h \in StaticHandlers |-> <<>>]
    /\ access = NoAccess
    /\ components = [c \in Components |-> Mounted(c)]
    /\ connection = FirstRender

\* what the client is told of a statement on analyst_targets: the operation, the
\* SQLSTATE it ended with, and of its row the symbol (before and after, for an
\* UPDATE), current_price and is_active; `concurrent` records that a transaction which
\* wrote an active row of the same symbol committed while this one was open,
\* `overlapped` that a transaction which wrote a row of another symbol was open while
\* this one was
Statement(op, old, new, state) ==
    [op |-> op, sqlstate |-> state, symbol |-> new.symbol, old_symbol |-> old.symbol,
     current_price |-> new.current_price, active |-> new.is_active, concurrent |-> FALSE,
     overlapped |-> FALSE]

\* the values an INSERT gives the columns of a row (id is generated)
TargetRows ==
    [analyst_id : MainAnalystIds, symbol : Symbols, current_price : CurrentPrices,
     target_price : TargetPrices, price_change_percent : MainChangePercents,
     timeframe : MainTimeframes, confidence_level : Confidences, is_active : BOOLEAN]

\* the columns an UPDATE sets, and the values it may give each
UpdateColumns == {"symbol", "current_price", "target_price", "is_active"}

ColumnValues(col) ==
    CASE col = "symbol" -> Symbols
      [] col = "current_price" -> CurrentPrices
      [] col = "target_price" -> TargetPrices
      [] col = "is_active" -> BOOLEAN

\* (mutant) the function swallows its error: the row is kept without its summary
WriteKeepsRow(op, old, new, targets) ==
    LET state == TriggerState(new, targets, symbol_unique)
    IN  /\ clock <= MaxClock
        /\ \A s \in Sessions : tx[s] = Idle
        /\ clock' = clock + 1
        /\ last' = Statement(op, old, new, state)
        /\ analyst_targets' = targets
        /\ coin_analyst_summary' =
               IF state = Ok
               THEN update_coin_analyst_summary(new, targets, coin_analyst_summary, clock)
               ELSE coin_analyst_summary
        /\ selected' = IF symbol_unique THEN SelectOutcome(new, targets, clock)
                                         ELSE NotEvaluated
        /\ UNCHANGED <<symbol_unique, tx>>

\* One write of one analyst_targets row in its own transaction, run to its end with
\* no other transaction open: the row is written, the AFTER ROW trigger runs the
\* function on the table that holds the write, and the transaction commits; when the
\* function raises, the transaction is rolled back and neither table changes.
Write(op, old, new, targets) ==
    LET state == TriggerState(new, targets, symbol_unique)
    IN  /\ clock <= MaxClock
        /\ \A s \in Sessions : tx[s] = Idle
        /\ clock' = clock + 1
        /\ last' = Statement(op, old, new, state)
        /\ IF state = Ok
           THEN /\ analyst_targets' = targets
                /\ coin_analyst_summary' =
                       update_coin_analyst_summary(new, targets, coin_analyst_summary, clock)
           ELSE UNCHANGED <<analyst_targets, coin_analyst_summary>>
        /\ selected' = IF symbol_unique THEN SelectOutcome(new, targets, clock)
                                         ELSE NotEvaluated
        /\ UNCHANGED <<symbol_unique, tx>>

\* INSERT INTO analyst_targets ... VALUES (r)
InsertTarget(r) ==
    LET new == [id |-> id_seq + 1] @@ r
    IN  /\ id_seq < MaxRows
        /\ Write("INSERT", new, new, analyst_targets \cup {new})
        /\ id_seq' = IF last'.sqlstate = Ok THEN id_seq + 1 ELSE id_seq

\* UPDATE analyst_targets SET col = val WHERE id = old.id
UpdateTarget(old, col, val) ==
    LET new == [old EXCEPT ![col] = val]
    IN  /\ Write("UPDATE", old, new, (analyst_targets \ {old}) \cup {new})
        /\ UNCHANGED id_seq

\* ------------------------------------------------------------------ specification

\* The database after the schema file ran: analyst_targets is empty and
\* coin_analyst_summary holds the seeded rows.  The file creates no unique index on
\* coin_analyst_summary(symbol) (symbol_unique = FALSE), which the ON CONFLICT
\* (symbol) of the trigger function needs; the other schema files of the repository
\* declare symbol UNIQUE wherever they write ON CONFLICT (symbol), and the model
\* covers that schema too (symbol_unique = TRUE), the only one under which
\* analyst_targets can hold a row.
Init ==
    /\ analyst_targets = {}
    /\ coin_analyst_summary = SeededSummary
    /\ symbol_unique \in BOOLEAN
    /\ clock = 1
    /\ id_seq = 0
    /\ last = NoStatement
    /\ tx = [s \in Sessions |-> Idle]
    /\ selected = NotEvaluated
    /\ coin_data = {}
    /\ tweet_sentiments = {}
    /\ correlation_analysis = {}
    /\ http = NoRequest
    /\ OtherInit

Next ==
    /\ \/ \E r \in TargetRows : InsertTarget(r)
       \/ \E old \in analyst_targets : \E col \in UpdateColumns :
              \E val \in ColumnValues(col) : UpdateTarget(old, col, val)
    /\ UNCHANGED apiVars
    /\ UNCHANGED otherVars

Spec == Init /\ [][Next]_vars

\* ------------------------------------------------------------------ the SELECT alone
\* The SELECT list of the trigger function as a function of the table it reads: the
\* table is drawn from the rows below, and the SELECT is evaluated for one of its rows.

AggPrices == {0, 1, 3}

AggRows ==
         [analyst_id : {1}, symbol : {"BTC"}, current_price : {1}, target_price : AggPrices,
          price_change_percent : {Null}, timeframe : Timeframes,
          confidence_level : {<<5>>}, is_active : {TRUE}]
    \cup [analyst_id : {2}, symbol : {"BTC"}, current_price : {2}, target_price : {1},
          price_change_percent : ChangePercents \ {Null}, timeframe : {"short_term"},
          confidence_level : {<<8>>}, is_active : {TRUE}]
    \cup [analyst_id : {2}, symbol : Symbols, current_price : {2}, target_price : {3},
          price_change_percent : {<<6>>}, timeframe : {"short_term"},
          confidence_level : {Null}, is_active : BOOLEAN]

RECURSIVE SeqOf(_)
SeqOf(S) == IF S = {} THEN <<>> ELSE LET x == CHOOSE y \in S : TRUE IN <<x>> \o SeqOf(S \ {x})

AggRowSeq == SeqOf(AggRows)

\* the table that holds the rows AggRowSeq[f[1]], ..., with the ids 1, ...
TableOf(f) == {[id |-> i] @@ AggRowSeq[f[i]] : i \in DOMAIN f}

\* every table of 1..MaxAggRows rows, each once (the order of insertion is immaterial
\* to the SELECT, so the rows are taken in the order of AggRowSeq)
AggTables ==
    {TableOf(f) : f \in {g \in UNION {[1..k -> 1..Len(AggRowSeq)] : k \in 1..MaxAggRows} :
                             \A i \in DOMAIN g : i = 1 \/ g[i - 1] <= g[i]}}

InitAgg ==
    /\ analyst_targets \in AggTables
    /\ coin_analyst_summary = SeededSummary
    /\ symbol_unique = TRUE
    /\ clock = 1
    /\ id_seq = Cardinality(analyst_targets)
    /\ last = NoStatement
    /\ tx = [s \in Sessions |-> Idle]
    /\ selected = NotEvaluated
    /\ coin_data = {}
    /\ tweet_sentiments = {}
    /\ correlation_analysis = {}
    /\ http = NoRequest
    /\ OtherInit

EvaluateSelect(new) ==
    /\ selected' = SelectOutcome(new, analyst_targets, clock)
    /\ UNCHANGED <<analyst_targets, coin_analyst_summary, symbol_unique, clock, id_seq, last, tx>>
    /\ UNCHANGED apiVars
    /\ UNCHANGED otherVars

NextAgg == \E new \in analyst_targets : EvaluateSelect(new)

SpecAgg == InitAgg /\ [][NextAgg]_vars

\* ------------------------------------------------------------------ concurrent sessions
\* Two sessions, each writing one analyst_targets row per transaction at the default
\* isolation level READ COMMITTED (the schema and its callers set none).  A
\* transaction (1) writes its row, which only it sees until it commits, (2) runs the
\* SELECT of the trigger function on a snapshot taken then: the committed rows and
\* its own write, (3) inserts or updates the summary row of its symbol, waiting while
\* another open transaction has written that row, and then writes the row it
\* computed in (2), and (4) commits.

TxCurrentPrices == {1}
TxTargetPrices == {1, 2}
TxUpdateColumns == {"target_price", "is_active"}

TxColumnValues(col) ==
    CASE col = "target_price" -> TxTargetPrices
      [] col = "is_active" -> BOOLEAN

TxTargetRows ==
    {r \in TargetRows : /\ r.current_price \in TxCurrentPrices
                        /\ r.target_price \in TxTargetPrices
                        /\ r.timeframe = "short_term"
                        /\ r.is_active = TRUE}

Open(s) == tx[s].phase # "idle"

\* the analyst_targets rows the transaction of session s sees
VisibleTargets(s) == {t \in analyst_targets : t.id # tx[s].new.id} \cup {tx[s].new}

TxFinished(s, state) == [Statement(tx[s].op, tx[s].old, tx[s].new, state)
                             EXCEPT !.concurrent = tx[s].peer, !.overlapped = tx[s].other]

\* the write of old into new touches no symbol that the open transaction t touches
OtherSymbols(t, old, new) ==
    {t.old.symbol, t.new.symbol} \cap {old.symbol, new.symbol} = {}

\* A transaction begins with its write.  It remembers the committed rows it began on
\* (base), and both it and a transaction open at the time remember that they overlap:
\* `other` when they write rows of different symbols, `same` when they share a symbol.
TxWrite(s, op, old, new) ==
    /\ clock <= MaxTxClock
    /\ ~Open(s)
    /\ \A o \in Sessions : Open(o) => tx[o].new.id # new.id
    /\ tx' = [o \in Sessions |->
                 IF o = s
                 THEN [phase |-> "written", op |-> op, old |-> old, new |-> new,
                       now |-> clock, peer |-> FALSE, base |-> analyst_targets,
                       other |-> \E p \in Sessions : Open(p) /\ OtherSymbols(tx[p], old, new),
                       same |-> \E p \in Sessions : Open(p) /\ ~OtherSymbols(tx[p], old, new)]
                 ELSE IF Open(o)
                      THEN IF OtherSymbols(tx[o], old, new)
                           THEN [tx[o] EXCEPT !.other = TRUE]
                           ELSE [tx[o] EXCEPT !.same = TRUE]
                      ELSE tx[o]]
    /\ clock' = clock + 1
    /\ UNCHANGED <<analyst_targets, coin_analyst_summary, symbol_unique, last, selected>>

TxInsert(s, r) ==
    LET new == [id |-> id_seq + 1] @@ r
    IN  /\ id_seq < MaxRows
        /\ TxWrite(s, "INSERT", new, new)
        /\ id_seq' = id_seq + 1

TxUpdate(s, old, col, val) ==
    /\ TxWrite(s, "UPDATE", old, [old EXCEPT ![col] = val])
    /\ UNCHANGED id_seq

TxAbort(s, state) ==
    /\ tx' = [tx EXCEPT ![s] = Idle]
    /\ last' = TxFinished(s, state)

TxSelect(s) ==
    /\ tx[s].phase = "written"
    /\ IF ~symbol_unique
       THEN /\ TxAbort(s, InvalidColumnReference)
            /\ selected' = NotEvaluated
       ELSE LET outcome == SelectOutcome(tx[s].new, VisibleTargets(s), tx[s].now)
            IN  /\ selected' = outcome
                /\ IF outcome.sqlstate = Ok
                   THEN /\ tx' = [tx EXCEPT ![s] = [phase |-> "selected", ex |-> outcome.row]
                                                       @@ tx[s]]
                        /\ UNCHANGED last
                   ELSE TxAbort(s, outcome.sqlstate)
    /\ UNCHANGED <<analyst_targets, coin_analyst_summary, symbol_unique, clock, id_seq>>

TxUpsert(s) ==
    /\ tx[s].phase = "selected"
    /\ \A o \in Sessions :
           tx[o].phase = "upserted" => tx[o].new.symbol # tx[s].new.symbol
    /\ IF NumericOverflow(tx[s].ex.price_dispersion)
       THEN TxAbort(s, NumericValueOutOfRange)
       ELSE /\ tx' = [tx EXCEPT ![s].phase = "upserted"]
            /\ UNCHANGED last
    /\ UNCHANGED <<analyst_targets, coin_analyst_summary, symbol_unique, clock, id_seq,
                   selected>>

TxCommit(s) ==
    /\ tx[s].phase = "upserted"
    /\ analyst_targets' = VisibleTargets(s)
    /\ coin_analyst_summary' = Upsert(coin_analyst_summary, tx[s].ex)
    /\ last' = TxFinished(s, Ok)
    /\ tx' = [o \in Sessions |->
                 IF o = s THEN Idle
                 ELSE IF /\ Open(o)
                         /\ tx[o].new.symbol = tx[s].new.symbol
                         /\ tx[o].new.is_active /\ tx[s].new.is_active
                      THEN [tx[o] EXCEPT !.peer = TRUE]
                      ELSE tx[o]]
    /\ UNCHANGED <<symbol_unique, clock, id_seq, selected>>

NextTx ==
    /\ \/ \E s \in Sessions : \E r \in TxTargetRows : TxInsert(s, r)
       \/ \E s \in Sessions : \E old \in analyst_targets : \E col \in TxUpdateColumns :
              \E val \in TxColumnValues(col) : TxUpdate(s, old, col, val)
       \/ \E s \in Sessions : TxSelect(s)
       \/ \E s \in Sessions : TxUpsert(s)
       \/ \E s \in Sessions : TxCommit(s)
    /\ UNCHANGED apiVars
    /\ UNCHANGED otherVars

SpecTx == Init /\ [][NextTx]_vars

\* ------------------------------------------------------------------ the API handlers
\* The route handlers and the tables they work on.  A row keeps the columns the
\* handlers filter and order by: the symbol column, the date column, and its id.  A
\* date is <<d>> and a NULL date <<>>, a missing body field or query parameter is
\* Missing.  A call of the database client returns {data, error} and never throws.

MaxRequests == 2     \* requests handled

Missing == "<undefined>"

ApiSymbols == {"BTC", "ETH"}

\* const symbol = searchParams.get('symbol') || 'BTC'
DefaultSymbol == "BTC"

\* .limit(10) of the targets, .limit(20) of the tweets
TargetsLimit == 10
TweetsLimit == 20

ApiTables == <<"coin_data", "analyst_targets", "tweet_sentiments", "correlation_analysis">>

\* the type of a POST /api/data body that selects each table
SupportedTypes == <<"coin_data", "analyst_target", "tweet_sentiment", "correlation_analysis">>

SymbolColumn(table) == IF table = "coin_data" THEN "symbol" ELSE "coin_symbol"

OrderColumn(table) ==
    CASE table = "coin_data" -> "created_at"
      [] table = "analyst_targets" -> "analysis_date"
      [] table = "tweet_sentiments" -> "tweet_date"
      [] table = "correlation_analysis" -> "analysis_date"

\* the order column is declared NOT NULL, except created_at of coin_data
OrderColumnNotNull(table) == table # "coin_data"

Table(table) ==
    CASE table = "coin_data" -> coin_data
      [] table = "analyst_targets" -> analyst_targets
      [] table = "tweet_sentiments" -> tweet_sentiments
      [] table = "correlation_analysis" -> correlation_analysis

ApiRow(table, id, sym, date) ==
    [id |-> id, table |-> table] @@ (SymbolColumn(table) :> sym) @@ (OrderColumn(table) :> date)

NextId(rows) ==
    1 + (CHOOSE m \in {0} \cup {r.id : r \in rows} : \A r \in rows : r.id <= m)

\* ---- the database calls

NotNullViolation == "23502"
ServiceError == "PGRST000"

\* .from(table).insert(data): data is a row, or an array of `rows` equal rows, that
\* gives the symbol column and, when data.dated, the order column (data.date).  The
\* result: the error the call returns (Null for none) and the table afterwards.  A
\* NULL in a NOT NULL column is rejected, created_at left out takes DEFAULT NOW(), and
\* `down` stands for any other error of the service; a rejected insert writes no row.
Insert(table, data, now, down) ==
    LET rows == Table(table)
        date == IF data.dated THEN data.date
                ELSE IF table = "coin_data" THEN <<now>> ELSE Null
        error == IF down THEN <<ServiceError>>
                 ELSE IF OrderColumnNotNull(table) /\ date = Null THEN <<NotNullViolation>>
                 ELSE Null
    IN  [error |-> error,
         rows |-> IF error # Null THEN rows
                  ELSE rows \cup {ApiRow(table, NextId(rows) + i, data.symbol, date) :
                                      i \in 0..(data.rows - 1)}]

\* a sorts strictly before b under ORDER BY ... DESC, where NULLs come first
DescBefore(a, b) ==
    \/ a = Null /\ b # Null
    \/ a # Null /\ b # Null /\ a[1] > b[1]

\* the subsets of S with k elements
RECURSIVE Combos(_, _)
Combos(S, k) ==
    IF k = 0 THEN {{}}
    ELSE IF k = Cardinality(S) THEN {S}
    ELSE IF k > Cardinality(S) THEN {}
    ELSE LET x == CHOOSE y \in S : TRUE
         IN  {c \cup {x} : c \in Combos(S \ {x}, k - 1)} \cup Combos(S \ {x}, k)

\* .from(table).select('*').eq(symbol column, sym).order(order column, {ascending:
\* false}).limit(n): the row sets the database may return, one per way of breaking
\* the ties of the order column at the limit
Select(table, sym, n) ==
    LET col == OrderColumn(table)
        matching == {r \in Table(table) : r[SymbolColumn(table)] = sym}
        m == IF Cardinality(matching) < n THEN Cardinality(matching) ELSE n
        sure == {r \in matching :
                    Cardinality({q \in matching \ {r} : ~DescBefore(r[col], q[col])}) < n}
        possible == {r \in matching :
                        Cardinality({q \in matching : DescBefore(q[col], r[col])}) < n}
    IN  {sure \cup c : c \in Combos(possible \ sure, m - Cardinality(sure))}

\* ---- GET /api/coin/[symbol]

\* the symbol the handler queries: the query parameter `symbol`, 'BTC' when it is
\* absent or empty; the [symbol] segment of the path is not read
RequestedSymbol(request) ==
    IF request.query_symbol \in {Missing, ""} THEN DefaultSymbol ELSE request.query_symbol

GetLimits == <<1, TargetsLimit, TweetsLimit, 1>>

\* the calls GET makes when call number errAt returns an error (0: none does)
GetCalls(errAt) ==
    [i \in 1..(IF errAt = 0 THEN 4 ELSE errAt) |->
        [op |-> "select", table |-> ApiTables[i], error |-> i = errAt]]

\* coins?.[0] || null: the first row of the result as a sequence of at most one row
First(rows) == IF rows = {} THEN <<>> ELSE <<CHOOSE r \in rows : TRUE>>

GET(request, errAt) ==
    LET symbol == RequestedSymbol(request)
    IN  /\ clock <= MaxRequests
        /\ clock' = clock + 1
        /\ IF errAt # 0
           THEN http' = [handler |-> "GET /coin", request |-> request,
                         calls |-> GetCalls(errAt), status |-> 500,
                         body |-> [error |-> "fetch failed"]]
           ELSE \E coins \in Select("coin_data", symbol, GetLimits[1]) :
                \E targets \in Select("analyst_targets", symbol, GetLimits[2]) :
                \E tweets \in Select("tweet_sentiments", symbol, GetLimits[3]) :
                \E correlations \in Select("correlation_analysis", symbol, GetLimits[4]) :
                    http' = [handler |-> "GET /coin", request |-> request,
                             calls |-> GetCalls(0), status |-> 200,
                             body |-> [coin |-> First(coins), targets |-> targets,
                                       tweets |-> tweets,
                                       correlation |-> First(correlations)]]
        /\ UNCHANGED <<analyst_targets, coin_data, tweet_sentiments, correlation_analysis>>
        /\ UNCHANGED <<coin_analyst_summary, symbol_unique, id_seq, last, tx, selected>>

\* ---- POST /api/data

\* (mutant) the default branch falls through to the coin_data case
TableOfTypeOrCoinData(type) ==
    IF \E i \in 1..4 : SupportedTypes[i] = type
    THEN ApiTables[CHOOSE i \in 1..4 : SupportedTypes[i] = type]
    ELSE "coin_data"

\* the table that `type` selects in the switch, Missing for the default branch
TableOfType(type) ==
    IF \E i \in 1..4 : SupportedTypes[i] = type
    THEN ApiTables[CHOOSE i \in 1..4 : SupportedTypes[i] = type]
    ELSE Missing

\* (mutant) a write of one table truncates the others
SetTableOnly(table, rows) ==
    /\ coin_data' = IF table = "coin_data" THEN rows ELSE {}
    /\ analyst_targets' = IF table = "analyst_targets" THEN rows ELSE {}
    /\ tweet_sentiments' = IF table = "tweet_sentiments" THEN rows ELSE {}
    /\ correlation_analysis' = IF table = "correlation_analysis" THEN rows ELSE {}

SetTable(table, rows) ==
    /\ coin_data' = IF table = "coin_data" THEN rows ELSE coin_data
    /\ analyst_targets' = IF table = "analyst_targets" THEN rows ELSE analyst_targets
    /\ tweet_sentiments' = IF table = "tweet_sentiments" THEN rows ELSE tweet_sentiments
    /\ correlation_analysis' =
           IF table = "correlation_analysis" THEN rows ELSE correlation_analysis

\* (mutant) the catch block answers as the default branch of the switch does
CatchResponseBadRequest(error) == [status |-> 400, body |-> [error |-> "save failed"]]

\* the response of the catch block, whatever was thrown
CatchResponse(error) == [status |-> 500, body |-> [error |-> "save failed"]]

\* request.json() rejects a body that is no JSON, and destructuring {type, data} of
\* the body null throws: both end in the catch block
POST(request, down) ==
    /\ clock <= MaxRequests
    /\ clock' = clock + 1
    /\ IF request.body # "object"
       THEN /\ http' = [handler |-> "POST /data", request |-> request, calls |-> <<>>,
                        status |-> CatchResponse(request.body).status,
                        body |-> CatchResponse(request.body).body]
            /\ UNCHANGED <<analyst_targets, coin_data, tweet_sentiments, correlation_analysis>>
       ELSE IF TableOfType(request.type) = Missing
       THEN /\ http' = [handler |-> "POST /data", request |-> request, calls |-> <<>>,
                        status |-> 400, body |-> [error |-> "unsupported type"]]
            /\ UNCHANGED <<analyst_targets, coin_data, tweet_sentiments, correlation_analysis>>
       ELSE LET table == TableOfType(request.type)
                result == Insert(table, request.data, clock, down)
                calls == <<[op |-> "insert", table |-> table, error |-> result.error # Null]>>
            IN  /\ SetTable(table, result.rows)
                /\ http' = IF result.error # Null
                           THEN [handler |-> "POST /data", request |-> request,
                                 calls |-> calls,
                                 status |-> CatchResponse(result.error).status,
                                 body |-> CatchResponse(result.error).body]
                           ELSE [handler |-> "POST /data", request |-> request,
                                 calls |-> calls, status |-> 200,
                                 body |-> [success |-> TRUE]]
    /\ UNCHANGED <<coin_analyst_summary, symbol_unique, id_seq, last, tx, selected>>

\* ---- POST /api/seed

\* a sample row that gives its date column, and one that leaves created_at out
SampleDatum(sym, date) == [symbol |-> sym, dated |-> TRUE, date |-> date, rows |-> 1]

SampleCoin(sym) == [symbol |-> sym, dated |-> FALSE, date |-> Null, rows |-> 1]

sampleCoins ==
    <<SampleCoin("BTC"), SampleCoin("ETH"), SampleCoin("ADA"), SampleCoin("SOL"),
      SampleCoin("DOT")>>

\* analysis_date '2024-01-15' is <<15>>, '2024-01-14' <<14>>
sampleTargets ==
    <<SampleDatum("BTC", <<15>>), SampleDatum("BTC", <<14>>), SampleDatum("ETH", <<15>>),
      SampleDatum("ETH", <<14>>), SampleDatum("ADA", <<15>>), SampleDatum("SOL", <<15>>),
      SampleDatum("DOT", <<15>>)>>

\* tweet_date '2024-01-15T10:30:00Z' is <<151030>>
sampleTweets ==
    <<SampleDatum("BTC", <<151030>>), SampleDatum("BTC", <<150915>>),
      SampleDatum("ETH", <<151100>>), SampleDatum("ETH", <<150845>>),
      SampleDatum("ADA", <<151220>>), SampleDatum("SOL", <<151310>>),
      SampleDatum("DOT", <<151430>>)>>

sampleCorrelations ==
    <<SampleDatum("BTC", <<15>>), SampleDatum("ETH", <<15>>), SampleDatum("ADA", <<15>>),
      SampleDatum("SOL", <<15>>), SampleDatum("DOT", <<15>>)>>

Samples == <<sampleCoins, sampleTargets, sampleTweets, sampleCorrelations>>

\* the inserts of seedDatabase in the order it makes them
SeedCalls ==
    LET Of(t) == [i \in 1..Len(Samples[t]) |-> [table |-> ApiTables[t], data |-> Samples[t][i]]]
    IN  Of(1) \o Of(2) \o Of(3) \o Of(4)

\* (mutant) the first insert that returns an error ends the seeding
RECURSIVE SeededUntilError(_, _, _, _, _)
SeededUntilError(table, rows, n, failed, now) ==
    IF n = 0 THEN rows
    ELSE LET before == SeededUntilError(table, rows, n - 1, failed, now)
             call == SeedCalls[n]
         IN  IF call.table # table \/ (\E i \in failed : i <= n) THEN before
             ELSE before \cup {ApiRow(table, NextId(before), call.data.symbol,
                                      IF call.data.dated THEN call.data.date
                                      ELSE <<now>>)}

\* the table `table` after the inserts calls[1..n] of which those in `failed` return an
\* error: an error is logged and the loop goes on
RECURSIVE Seeded(_, _, _, _, _)
Seeded(table, rows, n, failed, now) ==
    IF n = 0 THEN rows
    ELSE LET before == Seeded(table, rows, n - 1, failed, now)
             call == SeedCalls[n]
         IN  IF call.table # table \/ n \in failed THEN before
             ELSE before \cup {ApiRow(table, NextId(before), call.data.symbol,
                                      IF call.data.dated THEN call.data.date
                                      ELSE <<now>>)}

\* seedDatabase returns {success: true} when its loops end, whatever the inserts
\* returned; {success: false} only from its catch block, which no call reaches
seedDatabase(failed) == [success |-> TRUE]

\* The calls that return an error in one run of a function that makes the calls
\* labels[1], labels[2], ...: none, or the first call of a run of equal labels (the
\* first insert into a table, the first statement of a set-up function).
ErrorSets(labels) ==
    {{}} \cup {{i} : i \in {j \in DOMAIN labels : j = 1 \/ labels[j] # labels[j - 1]}}

POST_seed(failed) ==
    LET result == seedDatabase(failed)
    IN  /\ clock <= MaxRequests
        /\ clock' = clock + 1
        /\ coin_data' = Seeded("coin_data", coin_data, Len(SeedCalls), failed, clock)
        /\ analyst_targets' =
               Seeded("analyst_targets", analyst_targets, Len(SeedCalls), failed, clock)
        /\ tweet_sentiments' =
               Seeded("tweet_sentiments", tweet_sentiments, Len(SeedCalls), failed, clock)
        /\ correlation_analysis' =
               Seeded("correlation_analysis", correlation_analysis, Len(SeedCalls), failed, clock)
        /\ http' = [handler |-> "POST /seed", request |-> [body |-> Missing],
                    calls |-> [i \in 1..Len(SeedCalls) |->
                                  [op |-> "insert", table |-> SeedCalls[i].table,
                                   error |-> i \in failed]],
                    status |-> IF result.success THEN 200 ELSE 500,
                    body |-> IF result.success
                             THEN [message |-> "seeded", success |-> TRUE]
                             ELSE [error |-> "seed failed", success |-> FALSE]]
        /\ UNCHANGED <<coin_analyst_summary, symbol_unique, id_seq, last, tx, selected>>

\* ---- POST /api/supabase-setup

\* the rpc('exec_sql') calls of createDatabaseSchema (4), createIndexes (8) and
\* setupRLSPolicies (8)
SetupCalls ==
    [i \in 1..4 |-> "createDatabaseSchema"] \o [i \in 1..8 |-> "createIndexes"]
        \o [i \in 1..8 |-> "setupRLSPolicies"]

\* A set-up function whose rpc calls are SetupCalls[first .. first + n - 1]: it logs the
\* error a call returns and goes on, and returns {success: true} after the last call;
\* when call number `thrown` raises an exception (0: none does) its catch block
\* returns {success: false} and the calls after that one are not made.  `made` is the
\* number of calls the function made.
SetupStep(first, n, failed, thrown) ==
    IF thrown \in first..(first + n - 1)
    THEN [success |-> FALSE, first |-> first, made |-> thrown - first + 1]
    ELSE [success |-> TRUE, first |-> first, made |-> n]

createDatabaseSchema(failed, thrown) == SetupStep(1, 4, failed, thrown)

createIndexes(failed, thrown) == SetupStep(5, 8, failed, thrown)

setupRLSPolicies(failed, thrown) == SetupStep(13, 8, failed, thrown)

\* (mutant) the route goes on to the next step whatever a step returned
StepsRunAll(schemaResult, indexResult) == 3

\* how many of the three functions the route calls: it returns after the first that
\* did not report success
StepsRun(schemaResult, indexResult) ==
    IF ~schemaResult.success THEN 1 ELSE IF ~indexResult.success THEN 2 ELSE 3

\* the rpc calls one function made
StepCalls(result, failed) ==
    [i \in 1..result.made |->
        [op |-> "rpc", table |-> SetupCalls[result.first + i - 1],
         error |-> (result.first + i - 1) \in failed]]

POST_supabase_setup(failed, thrown) ==
    LET schemaResult == createDatabaseSchema(failed, thrown)
        indexResult == createIndexes(failed, thrown)
        policyResult == setupRLSPolicies(failed, thrown)
        run == StepsRun(schemaResult, indexResult)
    IN  /\ clock <= MaxRequests
        /\ clock' = clock + 1
        /\ http' = [handler |-> "POST /supabase-setup",
                    request |-> [body |-> Missing, thrown |-> thrown],
                    calls |-> StepCalls(schemaResult, failed)
                              \o (IF run >= 2 THEN StepCalls(indexResult, failed) ELSE <<>>)
                              \o (IF run >= 3 THEN StepCalls(policyResult, failed) ELSE <<>>),
                    status |-> IF schemaResult.success /\ indexResult.success
                                      /\ policyResult.success THEN 200 ELSE 500,
                    body |-> IF ~schemaResult.success THEN [error |-> "schema", details |-> Missing]
                             ELSE IF ~indexResult.success THEN [error |-> "indexes", details |-> Missing]
                             ELSE IF ~policyResult.success THEN [error |-> "policies", details |-> Missing]
                             ELSE [message |-> "set up", success |-> TRUE,
                                   results |-> [schema |-> TRUE, indexes |-> TRUE,
                                                policies |-> TRUE]]]
        /\ UNCHANGED <<analyst_targets, coin_data, tweet_sentiments, correlation_analysis>>
        /\ UNCHANGED <<coin_analyst_summary, symbol_unique, id_seq, last, tx, selected>>

\* the calls at which an exception is raised in one run of the set-up: none, or a
\* call in the middle of one of the three functions
SetupThrows == {0, 2, 6, 14}

\* ---- the requests

\* /api/coin/BTC, /api/coin/ETH and /api/coin/ETH?symbol=ETH
GetRequests ==
    {[path_symbol |-> "BTC", query_symbol |-> Missing],
     [path_symbol |-> "ETH", query_symbol |-> Missing],
     [path_symbol |-> "ETH", query_symbol |-> "ETH"]}

PostDatum(sym, date, rows) == [symbol |-> sym, dated |-> TRUE, date |-> date, rows |-> rows]

Undated(sym) == [symbol |-> sym, dated |-> FALSE, date |-> Null, rows |-> 1]

\* the data posted with each type: a row, or an array of two rows; a coin_data row
\* leaves created_at out or gives it as null, a row of another table gives its date
\* (before or after those of the rows there are) or leaves it out
PostData(type) ==
    CASE type = "coin_data" ->
             {Undated("BTC"), PostDatum("BTC", Null, 1), Undated("ETH")}
      [] type = "analyst_target" ->
             {PostDatum("BTC", <<0>>, 1), PostDatum("BTC", <<11>>, 1),
              Undated("BTC"), PostDatum("ETH", <<11>>, 2)}
      [] type = "tweet_sentiment" ->
             {PostDatum("BTC", <<1>>, 1), PostDatum("BTC", <<21>>, 1)}
      [] type = "correlation_analysis" ->
             {PostDatum("BTC", <<0>>, 1), PostDatum("BTC", <<2>>, 1)}
      [] OTHER -> {PostDatum("BTC", <<0>>, 1)}

PostRequests ==
    UNION {[body : {"object"}, type : {type}, data : PostData(type)] :
               type \in {SupportedTypes[i] : i \in 1..4} \cup {"unsupported", Missing}}
        \cup [body : {"null", "malformed"}]

\* the tables before the first request: all empty, or analyst_targets and
\* tweet_sentiments filled to the limit of GET with rows of one symbol dated 1, 2, ...
Filled(table, sym, n) == {ApiRow(table, i, sym, <<i>>) : i \in 1..n}

PriorContents ==
    {[coin_data |-> {}, analyst_targets |-> {}, tweet_sentiments |-> {},
      correlation_analysis |-> {}],
     [coin_data |-> Filled("coin_data", "BTC", 1),
      analyst_targets |-> Filled("analyst_targets", "BTC", TargetsLimit),
      tweet_sentiments |-> Filled("tweet_sentiments", "BTC", TweetsLimit),
      correlation_analysis |-> Filled("correlation_analysis", "BTC", 1)]}

InitApi ==
    /\ \E prior \in PriorContents :
           /\ coin_data = prior.coin_data
           /\ analyst_targets = prior.analyst_targets
           /\ tweet_sentiments = prior.tweet_sentiments
           /\ correlation_analysis = prior.correlation_analysis
    /\ http = NoRequest
    /\ OtherInit
    /\ clock = 1
    /\ coin_analyst_summary = {}
    /\ symbol_unique = FALSE
    /\ id_seq = 0
    /\ last = NoStatement
    /\ tx = [s \in Sessions |-> Idle]
    /\ selected = NotEvaluated

NextApi ==
    /\ \/ \E request \in GetRequests : \E errAt \in 0..4 : GET(request, errAt)
       \/ \E request \in PostRequests : \E down \in BOOLEAN : POST(request, down)
       \/ \E failed \in ErrorSets([i \in DOMAIN SeedCalls |-> SeedCalls[i].table]) :
              POST_seed(failed)
       \/ \E failed \in ErrorSets(SetupCalls) : \E thrown \in SetupThrows :
              POST_supabase_setup(failed, thrown)
    /\ UNCHANGED otherVars

SpecApi == InitApi /\ [][NextApi]_vars

\* ------------------------------------------------------------------ the static handlers

\* the literals of the three handlers, each record cut down to the fields that name it
communityData ==
    [mentions |-> <<[id |-> "1", platform |-> "Reddit", coinSymbol |-> "BTC"],
                    [id |-> "2", platform |-> "Discord", coinSymbol |-> "ETH"],
                    [id |-> "3", platform |-> "Telegram", coinSymbol |-> "DOGE"]>>,
     trends |-> <<[coinSymbol |-> "DOGE", trendingRank |-> 1],
                  [coinSymbol |-> "BTC", trendingRank |-> 2],
                  [coinSymbol |-> "ETH", trendingRank |-> 3],
                  [coinSymbol |-> "SOL", trendingRank |-> 4],
                  [coinSymbol |-> "ADA", trendingRank |-> 5]>>]

influencerMentions ==
    <<[id |-> "1", influencerName |-> "CryptoWhale", platform |-> "Twitter", coinSymbol |-> "BTC"],
      [id |-> "2", influencerName |-> "DeFiExpert", platform |-> "YouTube", coinSymbol |-> "ETH"],
      [id |-> "3", influencerName |-> "CryptoBear", platform |-> "Telegram", coinSymbol |-> "SOL"]>>

socialTrendsData ==
    [trends |-> <<[platform |-> "Twitter"], [platform |-> "Reddit"], [platform |-> "TikTok"]>>,
     viralContent |-> <<[id |-> "1", platform |-> "Twitter", coinSymbol |-> "DOGE"],
                        [id |-> "2", platform |-> "TikTok", coinSymbol |-> "BTC"],
                        [id |-> "3", platform |-> "Reddit", coinSymbol |-> "ETH"]>>]

\* the four tables of the API
Database == <<coin_data, analyst_targets, tweet_sentiments, correlation_analysis>>

\* (mutant) the handlers answer from the tables
StaticPayloadFromTables(handler) == [mentions |-> tweet_sentiments, trends |-> coin_data]

\* the data a static handler answers with
StaticPayload(handler) ==
    CASE handler = "GET /community" -> communityData
      [] handler = "GET /influencer" -> influencerMentions
      [] handler = "GET /social-trends" -> socialTrendsData

\* GET of a static handler: {success: true, data, timestamp: new Date()}; nothing in
\* its try block can throw, so its catch block is not reached
GET_static(handler) ==
    LET data == StaticPayload(handler)
    IN  /\ http' = [handler |-> handler, request |-> [body |-> Missing], calls |-> <<>>,
                    status |-> 200,
                    body |-> [success |-> TRUE, data |-> data, timestamp |-> <<clock>>]]
        /\ served' = IF served[handler] = <<>>
                      THEN [served EXCEPT ![handler] = <<[data |-> data, database |-> Database]>>]
                      ELSE served
        /\ UNCHANGED <<analyst_targets, coin_data, tweet_sentiments, correlation_analysis>>
        /\ UNCHANGED <<coin_analyst_summary, symbol_unique, clock, id_seq, last, tx, selected,
                       analyst_profiles, access, components, connection>>

\* the static handlers beside a handler that writes all four tables
NextStatic ==
    \/ \E handler \in StaticHandlers : GET_static(handler)
    \/ \E failed \in ErrorSets([i \in DOMAIN SeedCalls |-> SeedCalls[i].table]) :
           POST_seed(failed) /\ UNCHANGED otherVars

SpecStatic == InitApi /\ [][NextStatic]_vars

\* ------------------------------------------------------------------ deletes

ForeignKeyViolation == "23503"

\* the rows an INSERT gives under SpecDel: of either analyst, active, one timeframe
DelTargetRows ==
    [analyst_id : AnalystIds, symbol : Symbols, current_price : {1}, target_price : {1, 2},
     price_change_percent : MainChangePercents, timeframe : {"short_term"},
     confidence_level : Confidences, is_active : {TRUE}]

\* (mutant) the trigger is declared AFTER INSERT OR UPDATE OR DELETE
TriggerEventsWithDelete == {"INSERT", "UPDATE", "DELETE"}

\* CREATE TRIGGER update_coin_analyst_summary_trigger AFTER INSERT OR UPDATE ON
\* analyst_targets: the statements that fire the function
TriggerEvents == {"INSERT", "UPDATE"}

\* coin_analyst_summary after the AFTER ROW triggers of a statement `op` ran for each
\* of `rows` in turn, `targets` being the table the statement leaves: for an
\* operation the trigger is not declared for, nothing runs
RECURSIVE AfterRowTriggers(_, _, _, _, _)
AfterRowTriggers(op, rows, targets, summary, now) ==
    IF op \notin TriggerEvents \/ rows = {} THEN summary
    ELSE LET row == CHOOSE r \in rows : \A q \in rows : r.id <= q.id
             rest == AfterRowTriggers(op, rows \ {row}, targets, summary, now)
         IN  IF TriggerState(row, targets, symbol_unique) = Ok
             THEN update_coin_analyst_summary(row, targets, rest, now)
             ELSE rest

\* what the client is told of a statement that is no write of an analyst_targets row
Other(op, sym) == [NoStatement EXCEPT !.op = op, !.symbol = sym, !.old_symbol = sym]

\* analyst_targets.analyst_id REFERENCES analyst_profiles(id) ON DELETE CASCADE: the
\* rows that go with the profile a
Cascaded(targets, a) == {t \in targets : t.analyst_id = a}

\* DELETE FROM analyst_targets WHERE id = old.id
DeleteTarget(old) ==
    /\ \A s \in Sessions : tx[s] = Idle
    /\ analyst_targets' = analyst_targets \ {old}
    /\ coin_analyst_summary' =
           AfterRowTriggers("DELETE", {old}, analyst_targets', coin_analyst_summary, clock)
    /\ last' = Other("DELETE", old.symbol)
    /\ UNCHANGED <<symbol_unique, clock, id_seq, tx, selected, analyst_profiles, served, access,
                   components, connection>>

\* DELETE FROM analyst_profiles WHERE id = a: the rows of analyst_targets that
\* reference the profile are deleted with it
DeleteProfile(a) ==
    /\ \A s \in Sessions : tx[s] = Idle
    /\ analyst_profiles' = analyst_profiles \ {a}
    /\ analyst_targets' = analyst_targets \ Cascaded(analyst_targets, a)
    /\ coin_analyst_summary' =
           AfterRowTriggers("DELETE", Cascaded(analyst_targets, a), analyst_targets',
                            coin_analyst_summary, clock)
    /\ last' = Other("DELETE CASCADE", NullText)
    /\ UNCHANGED <<symbol_unique, clock, id_seq, tx, selected, served, access, components, connection>>

\* INSERT INTO analyst_profiles: no trigger of the schema touches the other tables
InsertProfile(a) ==
    /\ \A s \in Sessions : tx[s] = Idle
    /\ analyst_profiles' = analyst_profiles \cup {a}
    /\ last' = Other("INSERT PROFILE", NullText)
    /\ UNCHANGED <<analyst_targets, coin_analyst_summary, symbol_unique, clock, id_seq, tx,
                   selected, served, access, components, connection>>

\* INSERT INTO analyst_targets of a row whose analyst_id names no profile: rejected by
\* the foreign key before any trigger runs
InsertRejected(r) ==
    /\ \A s \in Sessions : tx[s] = Idle
    /\ r.analyst_id \notin analyst_profiles
    /\ last' = [Other("INSERT", r.symbol) EXCEPT !.sqlstate = ForeignKeyViolation]
    /\ UNCHANGED <<analyst_targets, coin_analyst_summary, symbol_unique, clock, id_seq, tx,
                   selected, analyst_profiles, served, access,
                   components, connection>>

NextDel ==
    /\ \/ \E r \in DelTargetRows :
              /\ r.analyst_id \in analyst_profiles
              /\ InsertTarget(r)
              /\ UNCHANGED otherVars
       \/ \E r \in DelTargetRows : InsertRejected(r)
       \/ \E old \in analyst_targets : \E val \in BOOLEAN :
              /\ UpdateTarget(old, "is_active", val)
              /\ UNCHANGED otherVars
       \/ \E old \in analyst_targets : DeleteTarget(old)
       \/ \E a \in analyst_profiles : DeleteProfile(a)
       \/ \E a \in AnalystIds \ analyst_profiles : InsertProfile(a)
    /\ UNCHANGED apiVars

SpecDel == Init /\ [][NextDel]_vars

\* ------------------------------------------------------------------ row-level security

Roles == {"anon", "authenticated", "service_role"}

Commands == {"SELECT", "INSERT", "UPDATE", "DELETE"}

\* the tables a schema enables row-level security on
RlsTables(schema) ==
    CASE schema = "analyst-targets" ->
             {"analyst_profiles", "analyst_targets", "prediction_accuracy",
              "analyst_reliability_history", "coin_analyst_summary"}
      [] schema = "binance" ->
             {"cryptocurrencies", "market_data_daily", "price_history", "current_prices"}
      [] schema = "setup" ->
             {"coin_data", "analyst_targets", "tweet_sentiments", "correlation_analysis"}

Schemas == {"analyst-targets", "binance", "setup"}

\* CREATE POLICY ... ON table FOR command USING / WITH CHECK (expr): expr is `true`,
\* or auth.jwt() ->> 'role' = 'service_role'; no policy of the repository has a TO
\* clause, so each applies to every role
Policies(schema) ==
    CASE schema = "analyst-targets" ->
             [table : RlsTables(schema), command : {"SELECT", "INSERT"}, expr : {"true"}]
             \cup [table : RlsTables(schema) \ {"analyst_reliability_history"},
                   command : {"UPDATE"}, expr : {"true"}]
      [] schema = "binance" ->
             [table : RlsTables(schema), command : {"SELECT"}, expr : {"true"}]
             \cup [table : RlsTables(schema), command : {"INSERT", "UPDATE"},
                   expr : {"jwt role = service_role"}]
      [] schema = "setup" ->
             [table : RlsTables(schema), command : {"SELECT"}, expr : {"true"}]

\* the value of a policy expression for a request of `role`
Holds(expr, role) == expr = "true" \/ role = "service_role"

\* with row-level security enabled a statement is admitted when a policy for its
\* command on its table holds (policies are permissive: one is enough, none denies)
Admitted(schema, table, command, role) ==
    \E policy \in Policies(schema) :
        /\ policy.table = table
        /\ policy.command = command
        /\ Holds(policy.expr, role)

\* one statement of a role on a table of a schema is checked against the policies
CheckPolicy(schema, table, command, role) ==
    /\ access' = [role |-> role, schema |-> schema, table |-> table, command |-> command,
                  admitted |-> Admitted(schema, table, command, role)]
    /\ UNCHANGED <<analyst_targets, coin_analyst_summary, symbol_unique, clock, id_seq, last,
                   tx, selected>>
    /\ UNCHANGED apiVars
    /\ UNCHANGED <<analyst_profiles, served, components, connection>>

NextRls ==
    \E schema \in Schemas : \E table \in RlsTables(schema) :
        \E command \in Commands : \E role \in Roles :
            CheckPolicy(schema, table, command, role)

SpecRls == Init /\ [][NextRls]_vars

\* ------------------------------------------------------------------ client components

\* what a query of the supabase client resolves to: {data: null, error}, or the rows
\* (their number is kept) without error; the client does not reject
QueryResults == [error : {TRUE}, count : {0}] \cup [error : {FALSE}, count : {0, 2}]

\* fetchAnalystTargets, fetchPriceData and fetchCorrelationData: `if (error) throw
\* error` passes to the catch block, which logs; else the rows are set; finally
\* setLoading(false)
fetchList(state, result) ==
    [loading |-> FALSE,
     data |-> IF result.error THEN state.data ELSE [rows |-> result.count],
     settled |-> TRUE,
     failed |-> result.error]

\* fetchTweetSentiments: as above, and the statistics are counted from the rows
fetchTweetSentiments(state, result) ==
    [loading |-> FALSE,
     data |-> IF result.error THEN state.data
              ELSE [tweets |-> result.count, counted |-> result.count],
     settled |-> TRUE,
     failed |-> result.error]

\* fetchStats: four queries under Promise.all, whose results are used without a look
\* at their error: `count || 0` and `data?.length ? average : 0` (the rows are taken
\* to hold analyst_correlation 1)
fetchStats(state, results) ==
    [loading |-> FALSE,
     data |-> [totalCoins |-> IF results[1].error THEN 0 ELSE results[1].count,
               totalAnalysts |-> IF results[2].error THEN 0 ELSE results[2].count,
               totalTweets |-> IF results[3].error THEN 0 ELSE results[3].count,
               avgCorrelation |-> IF results[4].error \/ results[4].count = 0 THEN 0 ELSE 1],
     settled |-> TRUE,
     failed |-> \E i \in 1..4 : results[i].error]

\* the fetch that a component starts from useEffect(..., []) settles
Settle(c, results) ==
    /\ ~components[c].settled
    /\ components' =
           [components EXCEPT ![c] =
               CASE c = "Home" -> fetchStats(@, results)
                 [] c = "SentimentAnalysis" -> fetchTweetSentiments(@, results[1])
                 [] OTHER -> fetchList(@, results[1])]
    /\ UNCHANGED <<analyst_targets, coin_analyst_summary, symbol_unique, clock, id_seq, last,
                   tx, selected>>
    /\ UNCHANGED apiVars
    /\ UNCHANGED <<analyst_profiles, served, access, connection>>

NextComponents ==
    \E c \in Components : \E results \in [1..4 -> QueryResults] : Settle(c, results)

SpecComponents == Init /\ [][NextComponents]_vars

\* ------------------------------------------------------------------ SupabaseConnectionTest

MaxInFlight == 2     \* requests of one button in flight
MaxPresses == 2      \* presses of one button that has a status

\* the value of a status while its request is in flight: 'testing' of
\* connectionStatus, 'setting' of setupStatus
InProgress(op) == IF op = "connection" THEN "testing" ELSE "setting"

\* how a request ends: response.ok (and result.success for the set-up), a response
\* that is not, with or without result.error, or fetch or response.json() throwing
Outcomes(op) ==
    IF op = "connection" THEN {"ok", "failed", "thrown"}
    ELSE {"ok", "failed", "failed with error", "thrown"}

ButtonNeverDisabled(op, shown) == FALSE

\* disabled={connectionStatus === 'testing'}, disabled={setupStatus === 'setting'}:
\* of the status as last rendered
ButtonDisabled(op, shown) == shown[op] = InProgress(op)

\* the message set beside the status 'error' (the texts are abbreviated)
ErrorMessage(op, outcome) ==
    CASE op = "connection" /\ outcome = "failed" -> "api connection failed"
      [] op = "connection" /\ outcome = "thrown" -> "connection test failed"
      [] op = "setup" /\ outcome = "failed" -> "database setup failed"
      [] op = "setup" /\ outcome = "failed with error" -> "result.error"
      [] OTHER -> "error during database setup"

connectionUnchanged ==
    /\ UNCHANGED <<analyst_targets, coin_analyst_summary, symbol_unique, clock, id_seq, last,
                   tx, selected>>
    /\ UNCHANGED apiVars
    /\ UNCHANGED <<analyst_profiles, served, access, components>>

\* onClick of an enabled button, testConnection or setupDatabase up to its await: the
\* status is set to in-progress and the message to '', the request is sent; the
\* component is rendered again before the next event is handled
Press(op) ==
    /\ ~ButtonDisabled(op, connection.shown)
    /\ connection.presses[op] < MaxPresses
    /\ connection.inflight[op] < MaxInFlight
    /\ LET status == [connection.status EXCEPT ![op] = InProgress(op)]
       IN  connection' =
               [connection EXCEPT !.status = status,
                                  !.shown = status,
                                  !.errorMessage = "",
                                  !.presses[op] = @ + 1,
                                  !.inflight[op] = @ + 1]
    /\ connectionUnchanged

\* testConnection or setupDatabase after its await: the status is set to success,
\* or to error with a message; what is shown changes at the next render
SettleRequest(op, outcome) ==
    /\ connection.inflight[op] > 0
    /\ connection' =
           [connection EXCEPT !.status[op] = IF outcome = "ok" THEN "success" ELSE "error",
                              !.errorMessage =
                                  IF outcome = "ok" THEN @ ELSE ErrorMessage(op, outcome),
                              !.inflight[op] = @ - 1]
    /\ connectionUnchanged

\* the render that follows the state set after an await
Render ==
    /\ connection.shown # connection.status
    /\ connection' = [connection EXCEPT !.shown = connection.status]
    /\ connectionUnchanged

\* onClick of the third button, createSampleData up to its await: no status, and
\* the button has no disabled attribute
PressSample ==
    /\ connection.inflight["seed"] < MaxInFlight
    /\ connection' = [connection EXCEPT !.inflight["seed"] = @ + 1]
    /\ connectionUnchanged

\* createSampleData after its await: an alert, no state set
SettleSample ==
    /\ connection.inflight["seed"] > 0
    /\ connection' = [connection EXCEPT !.inflight["seed"] = @ - 1]
    /\ connectionUnchanged

NextConnection ==
    \/ \E op \in Operations : Press(op)
    \/ \E op \in Operations : \E outcome \in Outcomes(op) : SettleRequest(op, outcome)
    \/ Render
    \/ PressSample
    \/ SettleSample

SpecConnection == Init /\ [][NextConnection]_vars

\* ------------------------------------------------------------------ claims

\* the columns of a summary row that are aggregated from the active rows
DerivedFields == SummaryFields \ {"symbol", "current_price", "last_updated"}

Restrict(r, F) == [f \in F |-> r[f]]

\* the derived columns of s are the aggregation over the rows that now have the
\* symbol of s and are active
Fresh(s) ==
    /\ ~SelectRaises(ActiveRows(analyst_targets, s.symbol))
    /\ Restrict(s, DerivedFields) =
           Restrict(SelectSummary([symbol |-> s.symbol, current_price |-> 0],
                                  analyst_targets, 0), DerivedFields)

\* a statement on analyst_targets ran in this step
StatementRan == clock' = clock + 1

C3_RecomputationReplacesRow ==
    [][(StatementRan /\ \E s \in coin_analyst_summary : s.symbol = last'.symbol)
        => /\ \A s, t \in coin_analyst_summary' : s.symbol = t.symbol => s = t
           /\ \E s \in coin_analyst_summary' :
                  /\ s.symbol = last'.symbol
                  /\ s.last_updated = clock
                  /\ s.current_price = last'.current_price]_vars

\* C4: when the function fails, the write that fired it is rolled back: both tables
\* are as they were before the statement.
C4_FailedWriteRolledBack ==
    [][(StatementRan /\ last'.sqlstate # Ok)
        => /\ analyst_targets' = analyst_targets
           /\ coin_analyst_summary' = coin_analyst_summary]_vars

\* C4 witness: a write was rejected because its aggregation raised an error while
\* the table already held a committed row
C4_Witness ==
    /\ last.sqlstate = DivisionByZeroState
    /\ analyst_targets # {}

C10_OtherSymbolsUnchanged ==
    [][StatementRan
        => /\ \A s \in coin_analyst_summary :
                  s.symbol # last'.symbol => s \in coin_analyst_summary'
           /\ \A s \in coin_analyst_summary' :
                  s.symbol # last'.symbol => s \in coin_analyst_summary]_vars

\* C10 witness: a write succeeded while the summary row of another symbol, written by
\* an earlier statement, is still the row that statement left
C10_Witness ==
    /\ last.sqlstate = Ok
    /\ last.op # "none"
    /\ \E s \in coin_analyst_summary :
           /\ s.symbol # last.symbol
           /\ s.last_updated > 0
           /\ s.last_updated < clock - 1
           /\ s.total_analysts > 0

\* ---- the aggregates, stated on the table itself

\* the active rows of symbol sym in bucket tf
Bucket(sym, tf) ==
    {t \in analyst_targets : t.symbol = sym /\ t.is_active = TRUE /\ t.timeframe = tf}

RECURSIVE PriceTotal(_)
PriceTotal(rows) ==
    IF rows = {} THEN 0
    ELSE LET t == CHOOSE u \in rows : TRUE IN t.target_price + PriceTotal(rows \ {t})

RECURSIVE ChangeTotal(_)
ChangeTotal(rows) ==
    IF rows = {} THEN 0
    ELSE LET t == CHOOSE u \in rows : TRUE
         IN  t.price_change_percent[1] + ChangeTotal(rows \ {t})

\* the sum of (x - y)^2 over the pairs of rows
RECURSIVE SquaredDifferences(_)
SquaredDifferences(rows) ==
    IF rows = {} THEN 0
    ELSE LET t == CHOOSE u \in rows : TRUE
             rest == rows \ {t}
             RECURSIVE To(_)
             To(others) ==
                 IF others = {} THEN 0
                 ELSE LET o == CHOOSE u \in others : TRUE
                      IN  (t.target_price - o.target_price) * (t.target_price - o.target_price)
                              + To(others \ {o})
         IN  To(rest) + SquaredDifferences(rest)

\* m is the arithmetic mean of the target prices of rows: m * |rows| = the total
IsMean(m, rows) ==
    /\ m # Null
    /\ m[1] * Cardinality(rows) = m[2] * PriceTotal(rows)

\* m is the median of the target prices of rows: at most half of the rows lie below
\* it and at most half above, and it is midway between the least and the greatest
\* price of which that is true
IsMedian(m, rows) ==
    LET n == Cardinality(rows)
        Below(p) == Cardinality({t \in rows : t.target_price < p})
        Above(p) == Cardinality({t \in rows : t.target_price > p})
        mid == {t.target_price : t \in {u \in rows : /\ 2 * Below(u.target_price) <= n
                                                     /\ 2 * Above(u.target_price) <= n}}
        lo == CHOOSE p \in mid : \A q \in mid : p <= q
        hi == CHOOSE p \in mid : \A q \in mid : q <= p
    IN  /\ m # Null
        /\ 2 * m[1] = m[2] * (lo + hi)

CountField(tf) ==
    CASE tf = "short_term" -> "short_term_targets"
      [] tf = "medium_term" -> "medium_term_targets"
      [] tf = "long_term" -> "long_term_targets"

AvgField(tf) ==
    CASE tf = "short_term" -> "avg_short_term_target"
      [] tf = "medium_term" -> "avg_medium_term_target"
      [] tf = "long_term" -> "avg_long_term_target"

MedianField(tf) ==
    CASE tf = "short_term" -> "median_short_term_target"
      [] tf = "medium_term" -> "median_medium_term_target"
      [] tf = "long_term" -> "median_long_term_target"

\* C5: for each timeframe bucket the aggregation yields the number of active rows of
\* the symbol in the bucket, the arithmetic mean and the median of their target
\* prices, and NULL mean and median (with count 0) for an empty bucket.
C5_BucketStatistics ==
    selected.sqlstate = Ok =>
        \A tf \in Timeframes :
            LET rows == Bucket(selected.symbol, tf)
                row == selected.row
            IN  /\ row[CountField(tf)] = Cardinality(rows)
                /\ IF rows = {}
                   THEN row[AvgField(tf)] = Null /\ row[MedianField(tf)] = Null
                   ELSE /\ IsMean(row[AvgField(tf)], rows)
                        /\ IsMedian(row[MedianField(tf)], rows)

\* C5 witness: the shape of the example [{short, a}, {short, b}, {medium, c}] with
\* a # b: two short_term rows (0 and 1), one medium_term row (3), no long_term row
C5_Witness ==
    /\ selected.sqlstate = Ok
    /\ selected.row.short_term_targets = 2
    /\ selected.row.avg_short_term_target = <<1, 2>>
    /\ selected.row.median_short_term_target = <<1, 2>>
    /\ selected.row.medium_term_targets = 1
    /\ selected.row.avg_medium_term_target = <<3, 1>>
    /\ selected.row.median_medium_term_target = <<3, 1>>
    /\ selected.row.long_term_targets = 0
    /\ selected.row.avg_long_term_target = Null
    /\ selected.row.median_long_term_target = Null

\* the active rows of the symbol the SELECT was last evaluated for
SelectedRows == ActiveRows(analyst_targets, selected.symbol)

\* those of them whose price_change_percent is not NULL (AVG skips the others)
SelectedChanges == {t \in SelectedRows : t.price_change_percent # Null}

\* C6: consensus_direction is 'bullish' when the mean price_change_percent of the
\* active rows is above 5, 'bearish' when it is below -5 and 'neutral' otherwise,
\* also at exactly 5 and -5; with no active row the SELECT raises no error and
\* yields 'neutral'.
C6_ConsensusThresholds ==
    selected # NotEvaluated =>
        LET n == Cardinality(SelectedChanges)
            total == ChangeTotal(SelectedChanges)
        IN  /\ SelectedRows = {} =>
                   selected.sqlstate = Ok /\ selected.row.consensus_direction = "neutral"
            /\ selected.sqlstate = Ok =>
                   selected.row.consensus_direction =
                       IF n > 0 /\ total > 5 * n THEN "bullish"
                       ELSE IF n > 0 /\ total < (-5) * n THEN "bearish"
                       ELSE "neutral"

\* C6 witness: the mean over two or more active rows is exactly 5 and the direction
\* is neutral
C6_Witness ==
    /\ selected.sqlstate = Ok
    /\ Cardinality(SelectedChanges) >= 2
    /\ ChangeTotal(SelectedChanges) = 5 * Cardinality(SelectedChanges)
    /\ selected.row.consensus_direction = "neutral"

\* the population standard deviation of the target prices of rows over their mean,
\* times 100: its square is sum (x - y)^2 / total^2
PopulationDispersion(rows) ==
    IF rows = {} \/ PriceTotal(rows) = 0 THEN Null
    ELSE LET q == Rat(SquaredDifferences(rows), PriceTotal(rows) * PriceTotal(rows))
         IN  <<Sign(PriceTotal(rows)) * Sign(q[1]), q[1], q[2]>>

\* the sample standard deviation (divisor n - 1) over the mean, times 100: its square
\* is n * sum (x - y)^2 / ((n - 1) * total^2); undefined for fewer than two rows
SampleDispersion(rows) ==
    LET n == Cardinality(rows)
    IN  IF n < 2 \/ PriceTotal(rows) = 0 THEN Null
        ELSE LET q == Rat(n * SquaredDifferences(rows),
                          (n - 1) * PriceTotal(rows) * PriceTotal(rows))
             IN  <<Sign(PriceTotal(rows)) * Sign(q[1]), q[1], q[2]>>

SecondRun ==
    /\ StatementRan
    /\ last.op # "none" /\ last.sqlstate = Ok
    /\ last'.sqlstate = Ok /\ last'.symbol = last.symbol
    /\ ActiveRows(analyst_targets', last.symbol) = ActiveRows(analyst_targets, last.symbol)

C11_ConsensusDirectionDomain ==
    \A s \in coin_analyst_summary :
        s.consensus_direction \in {"bullish", "bearish", "neutral"}

\* ---- concurrent writes of different symbols

\* the rows the transaction of session s would see had no other transaction run
\* since it began
AloneTargets(s) == {t \in tx[s].base : t.id # tx[s].new.id} \cup {tx[s].new}

\* the transaction of session s ends in this step
TxEnds(s) == Open(s) /\ tx'[s] = Idle

\* C12: a transaction that overlaps only with transactions that write rows of other
\* symbols is independent of them: neither waits for the other at the summary row, each ends with the
\* SQLSTATE it would end with alone, and the summary row it leaves for its symbol is
\* the row it would leave alone.
C12_DifferentSymbolsIndependent ==
    /\ [](\A s \in Sessions :
             (/\ tx[s].phase = "selected"
              /\ \A o \in Sessions \ {s} : Open(o) => OtherSymbols(tx[o], tx[s].old, tx[s].new))
             => ENABLED TxUpsert(s))
    /\ [][\A s \in Sessions :
             (TxEnds(s) /\ tx[s].other /\ ~tx[s].same)
             => LET state == TriggerState(tx[s].new, AloneTargets(s), symbol_unique)
                    alone == SelectSummary(tx[s].new, AloneTargets(s), tx[s].now)
                IN  /\ last'.sqlstate = state
                    /\ state = Ok =>
                           \A r \in coin_analyst_summary' :
                               r.symbol = tx[s].new.symbol
                               => Restrict(r, SummaryFields) = alone]_vars

\* C12 witness: two transactions that overlapped, one inserting a BTC row and one an
\* ADA row, have both committed
C12_Witness ==
    /\ last.sqlstate = Ok /\ last.overlapped
    /\ \A s \in Sessions : ~Open(s)
    /\ {t.symbol : t \in analyst_targets} = {"BTC", "ADA"}
    /\ \A t \in analyst_targets :
           \E r \in coin_analyst_summary :
               r.symbol = t.symbol /\ r.last_updated > 0 /\ r.short_term_targets = 1

\* ---- the API handlers

\* a request was handled in this step
RequestHandled == clock' = clock + 1

\* the four tables of the API are as they were
TablesUnchanged ==
    /\ coin_data' = coin_data
    /\ analyst_targets' = analyst_targets
    /\ tweet_sentiments' = tweet_sentiments
    /\ correlation_analysis' = correlation_analysis

\* the table the claims name for each supported type
CorrespondingTable(type) ==
    CASE type = "coin_data" -> "coin_data"
      [] type = "analyst_target" -> "analyst_targets"
      [] type = "tweet_sentiment" -> "tweet_sentiments"
      [] type = "correlation_analysis" -> "correlation_analysis"

ClaimedTypes == {"coin_data", "analyst_target", "tweet_sentiment", "correlation_analysis"}

\* a POST /data whose body is an object {type, data} was handled in this step
PostedObject ==
    /\ RequestHandled
    /\ http'.handler = "POST /data"
    /\ http'.request.body = "object"

\* C13: POST /data with a body whose type is none of the four supported ones, or has
\* no type, answers HTTP 400 with an error message, makes no database call and
\* leaves every table as it was.
C13_UnsupportedTypeRejected ==
    [][(PostedObject /\ http'.request.type \notin ClaimedTypes)
        => /\ http'.status = 400
           /\ "error" \in DOMAIN http'.body
           /\ http'.calls = <<>>
           /\ TablesUnchanged]_vars

\* C13 witness: a body without a type was answered 400 while the tables hold rows
C13_Witness ==
    /\ http.handler = "POST /data"
    /\ http.request.body = "object"
    /\ http.request.type = Missing
    /\ http.status = 400
    /\ analyst_targets # {} /\ tweet_sentiments # {}

\* C14: POST /data with a supported type makes exactly one database call, an insert
\* into the table of that type; the other three tables are unchanged, and the table
\* itself gains the posted rows when the insert succeeds and nothing otherwise.
C14_OneInsertIntoTableOfType ==
    [][(PostedObject /\ http'.request.type \in ClaimedTypes)
        => LET table == CorrespondingTable(http'.request.type)
               Before(t) == Table(t)
               After(t) == CASE t = "coin_data" -> coin_data'
                             [] t = "analyst_targets" -> analyst_targets'
                             [] t = "tweet_sentiments" -> tweet_sentiments'
                             [] t = "correlation_analysis" -> correlation_analysis'
           IN  /\ Len(http'.calls) = 1
               /\ http'.calls[1].op = "insert"
               /\ http'.calls[1].table = table
               /\ \A i \in 1..4 : ApiTables[i] # table => After(ApiTables[i]) = Before(ApiTables[i])
               /\ Before(table) \subseteq After(table)
               /\ Cardinality(After(table) \ Before(table)) =
                      IF http'.status = 200 THEN http'.request.data.rows ELSE 0
               /\ \A r \in After(table) \ Before(table) :
                      r[SymbolColumn(table)] = http'.request.data.symbol]_vars

\* C14 witness: an analyst_target was posted with success while the other tables
\* hold rows
C14_Witness ==
    /\ http.handler = "POST /data"
    /\ http.status = 200
    /\ http.request.type = "analyst_target"
    /\ Cardinality(analyst_targets) = TargetsLimit + 1
    /\ coin_data # {} /\ tweet_sentiments # {} /\ correlation_analysis # {}

\* the rows the last request inserted into analyst_targets: the newest ids
PostedTargets ==
    {r \in analyst_targets : r.id + http.request.data.rows >= NextId(analyst_targets)}

\* C15: after a successful POST /data of an analyst_target for symbol S, the next GET
\* /coin/S, when it succeeds, returns the posted row among its targets.
C15_PostedTargetReturned ==
    [][(/\ RequestHandled
        /\ http.handler = "POST /data" /\ http.status = 200
        /\ http.request.type = "analyst_target"
        /\ http'.handler = "GET /coin" /\ http'.status = 200
        /\ http'.request.path_symbol = http.request.data.symbol)
        => PostedTargets \subseteq http'.body.targets]_vars

\* C16: every record of a successful GET /coin/{symbol} response carries the symbol
\* named in the path.
C16_AnswersForPathSymbol ==
    (http.handler = "GET /coin" /\ http.status = 200)
    => LET sym == http.request.path_symbol
       IN  /\ \A i \in 1..Len(http.body.coin) : http.body.coin[i].symbol = sym
           /\ \A r \in http.body.targets : r.coin_symbol = sym
           /\ \A r \in http.body.tweets : r.coin_symbol = sym
           /\ \A i \in 1..Len(http.body.correlation) :
                  http.body.correlation[i].coin_symbol = sym

\* the rows of a table that match the symbol the handler queried
Matching(table) ==
    {r \in Table(table) : r[SymbolColumn(table)] = RequestedSymbol(http.request)}

\* `returned` are up to n of the rows of `table` that match, and no row left out has a
\* later date than one returned
MostRecent(returned, table, n) ==
    LET col == OrderColumn(table)
    IN  /\ returned \subseteq Matching(table)
        /\ Cardinality(returned) <= n
        /\ Cardinality(returned) = n \/ returned = Matching(table)
        /\ \A r \in returned : \A q \in Matching(table) \ returned :
               r[col] # Null /\ q[col] # Null => q[col][1] <= r[col][1]

\* `first` is null when no row of `table` matches, and else a row that matches and
\* has the latest date of those that match
Latest(first, table) ==
    LET col == OrderColumn(table)
    IN  IF Matching(table) = {} THEN first = <<>>
        ELSE /\ Len(first) = 1
             /\ first[1] \in Matching(table)
             /\ \A q \in Matching(table) :
                    q[col] # Null => first[1][col] # Null /\ q[col][1] <= first[1][col][1]

\* C17: a successful GET /coin returns at most 10 targets and at most 20 tweets, the
\* most recent ones by analysis_date and tweet_date; coin is the matching row with
\* the latest created_at and correlation the one with the latest analysis_date, each
\* null when no row matches (a row matches when it has the symbol the handler
\* queried; whether that is the symbol of the path is left to C16).
C17_MostRecentWithinLimits ==
    (http.handler = "GET /coin" /\ http.status = 200)
    => /\ MostRecent(http.body.targets, "analyst_targets", 10)
       /\ MostRecent(http.body.tweets, "tweet_sentiments", 20)
       /\ Latest(http.body.coin, "coin_data")
       /\ Latest(http.body.correlation, "correlation_analysis")

\* C18: every response body has a boolean field success, true together with data and
\* false together with error.
C18_UniformEnvelope ==
    http.handler # "none"
    => /\ "success" \in DOMAIN http.body
       /\ http.body.success \in BOOLEAN
       /\ http.body.success => "data" \in DOMAIN http.body
       /\ ~http.body.success => "error" \in DOMAIN http.body

\* C19: a request one of whose database calls returned an error is answered HTTP 500
\* and not with success.
C19_DatabaseErrorIs500 ==
    (http.handler # "none" /\ \E i \in 1..Len(http.calls) : http.calls[i].error)
    => /\ http.status = 500
       /\ ("success" \in DOMAIN http.body => ~http.body.success)

\* C20: a POST /seed that answers success: true has inserted the whole sample set: 5
\* rows into coin_data, 7 into analyst_targets, 7 into tweet_sentiments and 5 into
\* correlation_analysis.
C20_SeedSuccessMeansAllInserted ==
    [][(/\ RequestHandled
        /\ http'.handler = "POST /seed"
        /\ "success" \in DOMAIN http'.body /\ http'.body.success)
        => /\ Cardinality(coin_data' \ coin_data) = 5
           /\ Cardinality(analyst_targets' \ analyst_targets) = 7
           /\ Cardinality(tweet_sentiments' \ tweet_sentiments) = 7
           /\ Cardinality(correlation_analysis' \ correlation_analysis) = 5]_vars

\* ---- current_price of the summary row

\* C25: after every successful insert or update of an analyst_targets row with symbol
\* S, there is a summary row of S and it has the current_price of the row just
\* written, whether or not that row is active.
C25_SummaryPriceIsWrittenPrice ==
    [][(StatementRan /\ last'.sqlstate = Ok)
        => /\ \E s \in coin_analyst_summary' : s.symbol = last'.symbol
           /\ \A s \in coin_analyst_summary' :
                  s.symbol = last'.symbol => s.current_price = last'.current_price]_vars

\* C25 witness: the second write of a symbol succeeded for a row that is not active,
\* with a current_price other than that of the first, and the summary row, which
\* counts one analyst, has the new price
C25_Witness ==
    /\ last.sqlstate = Ok /\ last.op # "none" /\ ~last.active
    /\ \E t \in analyst_targets :
           t.symbol = last.symbol /\ t.is_active /\ t.current_price # last.current_price
    /\ \E s \in coin_analyst_summary :
           /\ s.symbol = last.symbol
           /\ s.total_analysts = 1
           /\ s.current_price = last.current_price

\* ---- deletes

\* rows of analyst_targets were deleted in this step, by a DELETE on the table or
\* with their analyst's profile
DeleteRan ==
    /\ analyst_targets' \subseteq analyst_targets
    /\ analyst_targets' # analyst_targets

\* C26: a delete of analyst_targets rows, direct or cascaded from analyst_profiles,
\* leaves every coin_analyst_summary row as it was.
C26_DeleteRecomputesNothing ==
    [][DeleteRan => coin_analyst_summary' = coin_analyst_summary]_vars

\* C26 witness: the profile of an analyst was deleted and took the only row of a
\* symbol with it, while the row of another analyst stays; the summary row of the
\* symbol still counts one analyst
C26_Witness ==
    /\ last.op = "DELETE CASCADE"
    /\ analyst_targets # {}
    /\ \E s \in coin_analyst_summary :
           /\ s.total_analysts = 1
           /\ \A t \in analyst_targets : t.symbol # s.symbol

\* ---- the order of the set-up

\* C24: POST /supabase-setup makes the calls of create tables, then create indexes,
\* then set RLS policies, in that order; a function is started only after the one
\* before it ran to its end and reported success; the first that reports failure
\* ends the request with HTTP 500 and no later call; the success response follows
\* all twenty calls.
C24_SetupStepsInOrder ==
    http.handler = "POST /supabase-setup"
    => LET n == Len(http.calls)
           thrown == http.request.thrown
       IN  /\ n <= Len(SetupCalls)
           /\ \A i \in 1..n : http.calls[i].table = SetupCalls[i]
           /\ thrown = 0 => (http.status = 200 /\ http.body.success /\ n = Len(SetupCalls))
           /\ thrown # 0 => (http.status = 500 /\ "error" \in DOMAIN http.body /\ n = thrown)
           /\ http.status = 200 => n = Len(SetupCalls)

\* C24 witness: create indexes reported failure at its second call: the request ended
\* with 500 after the four calls of create tables and two of create indexes
C24_Witness ==
    /\ http.handler = "POST /supabase-setup"
    /\ http.status = 500
    /\ Len(http.calls) = 6
    /\ http.calls[4].table = "createDatabaseSchema"
    /\ http.calls[6].table = "createIndexes"

\* ---- the order of the seeding

\* the table of each of the 24 inserts, in the order the claim gives
SeedOrder ==
    [i \in 1..24 |-> IF i <= 5 THEN "coin_data"
                     ELSE IF i <= 12 THEN "analyst_targets"
                     ELSE IF i <= 19 THEN "tweet_sentiments"
                     ELSE "correlation_analysis"]

\* the rows of table t that this step added
Added(t) ==
    CASE t = "coin_data" -> coin_data' \ coin_data
      [] t = "analyst_targets" -> analyst_targets' \ analyst_targets
      [] t = "tweet_sentiments" -> tweet_sentiments' \ tweet_sentiments
      [] t = "correlation_analysis" -> correlation_analysis' \ correlation_analysis

\* C27: seedDatabase makes 24 inserts, one row each: 5 into coin_data, then 7 into
\* analyst_targets, then 7 into tweet_sentiments, then 5 into correlation_analysis;
\* every insert that returns no error adds its row, also after one that returned an
\* error.
C27_SeedAttemptsEveryInsert ==
    [][(RequestHandled /\ http'.handler = "POST /seed")
        => /\ Len(http'.calls) = 24
           /\ \A i \in 1..24 :
                  http'.calls[i].op = "insert" /\ http'.calls[i].table = SeedOrder[i]
           /\ \A k \in 1..4 :
                  Cardinality(Added(ApiTables[k])) =
                      Cardinality({i \in 1..24 : /\ SeedOrder[i] = ApiTables[k]
                                                 /\ ~http'.calls[i].error})]_vars

\* C27 witness: the first insert into analyst_targets returned an error; the six
\* after it, and the inserts into the tables after it, added their rows
C27_Witness ==
    /\ http.handler = "POST /seed"
    /\ http.calls[6].error
    /\ Cardinality(coin_data) = 5
    /\ Cardinality(analyst_targets) = 6
    /\ Cardinality(tweet_sentiments) = 7
    /\ Cardinality(correlation_analysis) = 5

\* ---- a body that is no JSON

\* C28: POST /data with a body that cannot be parsed as JSON answers HTTP 500, makes
\* no database call and leaves every table as it was.
C28_MalformedBodyIs500 ==
    [][(RequestHandled /\ http'.handler = "POST /data" /\ http'.request.body = "malformed")
        => /\ http'.status = 500
           /\ http'.calls = <<>>
           /\ TablesUnchanged]_vars

\* C28 witness: a body that is no JSON was answered while the four tables hold rows
C28_Witness ==
    /\ http.handler = "POST /data"
    /\ http.request.body = "malformed"
    /\ "error" \in DOMAIN http.body
    /\ coin_data # {} /\ analyst_targets # {}
    /\ tweet_sentiments # {} /\ correlation_analysis # {}

\* ---- the static handlers

\* C21: GET /community, GET /influencer and GET /social-trends make no database call
\* and leave the tables as they were, and the data of a response is the data of the
\* first response of that handler, whatever the tables held then and hold now.
C21_StaticHandlersIgnoreDatabase ==
    [][(http'.handler \in StaticHandlers /\ http' # http)
        => /\ http'.calls = <<>>
           /\ TablesUnchanged
           /\ http'.status = 200 /\ http'.body.success
           /\ \A i \in 1..Len(served'[http'.handler]) :
                  http'.body.data = served'[http'.handler][i].data]_vars

\* C21 witness: GET /community has answered on two different contents of the tables
C21_Witness ==
    /\ http.handler = "GET /community"
    /\ served["GET /community"] # <<>>
    /\ served["GET /community"][1].database # Database
    /\ served["GET /influencer"] # <<>>

\* ---- row-level security

\* C22: on every table with row-level security enabled, no insert or update policy
\* admits a role other than service_role, and select is admitted for every role.
C22_OnlyServiceRoleWrites ==
    access.role # "none"
    => /\ (access.command \in {"INSERT", "UPDATE"} /\ access.role # "service_role")
              => ~access.admitted
       /\ access.command = "SELECT" => access.admitted

\* ---- client components

\* C23: once the fetch of a component has settled, loading is false, and when the
\* fetch failed the data of the component is its initial empty value.
C23_FailedFetchLeavesDataEmpty ==
    \A c \in Components :
        components[c].settled
        => /\ ~components[c].loading
           /\ components[c].failed => components[c].data = InitialData(c)

\* ---- SupabaseConnectionTest

\* C29: for each of the two operations the status changes only from idle, success or
\* error to in-progress, when the button is pressed and a request is sent, or from
\* in-progress to success or error, when a request settles; and at most one request
\* of the operation is in flight.
C29_OneRequestInFlight ==
    [][\A op \in Operations :
           /\ connection'.inflight[op] <= 1
           /\ connection'.status[op] # connection.status[op]
              => \/ /\ connection.status[op] \in {"idle", "success", "error"}
                    /\ connection'.status[op] = InProgress(op)
                    /\ connection'.presses[op] = connection.presses[op] + 1
                    /\ connection'.inflight[op] = connection.inflight[op] + 1
                 \/ /\ connection.status[op] = InProgress(op)
                    /\ connection'.status[op] \in {"success", "error"}
                    /\ connection'.presses[op] = connection.presses[op]
                    /\ connection'.inflight[op] = connection.inflight[op] - 1
           /\ connection'.status[op] = connection.status[op]
              => connection'.inflight[op] = connection.inflight[op]]_vars

\* the connection test was pressed a second time, after its first request ended in
\* error, while the set-up has settled and is still shown as in progress
C29_Witness ==
    /\ connection.presses["connection"] = 2
    /\ connection.status["connection"] = "testing"
    /\ connection.inflight["connection"] = 1
    /\ connection.status["setup"] = "error"
    /\ connection.shown["setup"] = "setting"

====
